---- MODULE Spec2Model ----
(***************************************************************************)
(* Quiz-session orchestration engine of Malak-onlayn-test                  *)
(* (telegramService: PollResultsCollector, TelegramAPI,                    *)
(* MultiUserQuizManager, sendQuizToTelegram, sendMultiUserQuizToTelegram). *)
(*                                                                         *)
(* Strings are kept as run-length encoded character sequences, so that a   *)
(* text longer than the platform limits (100, 300) is a small value and    *)
(* trim()/substring() are computed on it as JavaScript computes them.      *)
(* Array indices are 0-based as in the source; Seq positions are index+1.  *)
(***************************************************************************)
EXTENDS Integers, Sequences, FiniteSets, TLC

VARIABLES
    pc,             \* position of the orchestration function
    rawPool,        \* questions: Question[] argument
    reqCount,       \* requestedCount argument
    intervalSeconds, \* intervalSeconds argument
    mgrQuestions,   \* MultiUserQuizManager.questions
    sessions,       \* MultiUserQuizManager.sessions : sessionId -> QuizSession
    sid,            \* sessionId of the orchestration's session
    qi,             \* loop variable i of the question loop
    shuffled,       \* shuffledData of the question in hand
    pollReq         \* outcome of the last sendPoll payload construction

VARIABLES
    mode,           \* "single": sendQuizToTelegram, "multi": sendMultiUserQuizToTelegram
    userIds,        \* userIds argument ([config.userId] in single mode)
    now,            \* Date.now(), in seconds
    regIdx,         \* position of the registration loop in userIds
    validUserIds,   \* validUserIds
    batchStart,     \* loop variable j of the batch loop
    settled,        \* positions of validUserIds whose sendPoll promise has settled
    userStates,     \* PollResultsCollector.userStates
    collResults,    \* PollResultsCollector.results
    collOrder,      \* key order of PollResultsCollector.results
    startTime,      \* startTime of waitForSinglePollResult
    offset,         \* offset of waitForSinglePollResult (0: undefined)
    polls,          \* platform: polls created, pollId = position
    updates,        \* platform: poll_answer updates, update_id = position
    confirmed,      \* platform: highest update_id acknowledged by an offset
    delivered,      \* history: how often each update was returned by getUpdates
    cycles,         \* history: the collection cycles that have returned
    failure         \* the error the orchestration's catch block caught, whom its
                    \* notification reached and the error it threw to the caller

VARIABLES
    clock,          \* Date.now() as the RateLimiter reads it, in ticks of 1/6 s
    lastRequestTime, \* RateLimiter.lastRequestTime
    callers,        \* the pending waitIfNeeded calls: caller -> position
    api,            \* the TelegramAPI operation in progress: arguments and locals
    events,         \* history: limiter waits, requests and sleeps of the client
    mgrCall         \* the last direct MultiUserQuizManager call and what it threw

argVars == <<rawPool, reqCount, intervalSeconds, mode, userIds>>
mgrVars == <<mgrQuestions, sessions, sid>>
dispVars == <<qi, shuffled, pollReq>>
orchVars == <<now, regIdx, validUserIds, batchStart, settled>>
collVars == <<userStates, collResults, collOrder, startTime, offset>>
platVars == <<polls, updates, confirmed>>
histVars == <<delivered, cycles>>
runVars == <<orchVars, collVars, platVars, histVars, failure>>
limiterVars == <<clock, lastRequestTime, callers>>
clientVars == <<api, events>>
unitVars == <<limiterVars, clientVars, mgrCall>>
vars == <<pc, argVars, mgrVars, dispVars, runVars, unitVars>>

----------------------------------------------------------------------------
(* Bounds *)

MaxPool == 3            \* longest question pool enumerated
MaxRequested == 4       \* largest requestedCount enumerated
MaxOptions == 3         \* longest fully enumerated option list
MaxUpdates == 2         \* poll answers the participants give in one run
MaxCallers == 3         \* concurrent callers of one RateLimiter
MaxClock == 8           \* ticks the RateLimiter is watched for

(* Program constants *)

MinPollOptions == 2
MaxPollOptions == 10
PollQuestionLimit == 300
PollOptionLimit == 100
MinOpenPeriod == 5
MaxOpenPeriod == 200
MaxRequestedCount == 100

----------------------------------------------------------------------------
(* Strings: a sequence of runs [c, n] = character c repeated n times, no two
   adjacent runs with the same character.  " " is the whitespace character. *)

Run(ch, k) == [c |-> ch, n |-> k]

RECURSIVE StrLen(_)
StrLen(s) == IF s = <<>> THEN 0 ELSE Head(s).n + StrLen(Tail(s))

\* String.prototype.substring(0, maxLength)
RECURSIVE Substring0(_, _)
Substring0(s, maxLength) ==
    IF s = <<>> \/ maxLength <= 0 THEN <<>>
    ELSE IF Head(s).n <= maxLength
         THEN <<Head(s)>> \o Substring0(Tail(s), maxLength - Head(s).n)
         ELSE <<Run(Head(s).c, maxLength)>>

RECURSIVE TrimStart(_)
TrimStart(s) ==
    IF s = <<>> THEN <<>>
    ELSE IF Head(s).c = " " THEN TrimStart(Tail(s)) ELSE s

RECURSIVE TrimEnd(_)
TrimEnd(s) ==
    IF s = <<>> THEN <<>>
    ELSE IF s[Len(s)].c = " " THEN TrimEnd(SubSeq(s, 1, Len(s) - 1)) ELSE s

\* String.prototype.trim()
Trim(s) == TrimEnd(TrimStart(s))

\* Array.prototype.includes / indexOf (0-based, -1 when absent)
Includes(arr, x) == \E k \in 1..Len(arr) : arr[k] = x

IndexOf(arr, x) ==
    IF Includes(arr, x)
    THEN (CHOOSE k \in 1..Len(arr) : arr[k] = x /\ \A m \in 1..(k - 1) : arr[m] # x) - 1
    ELSE -1

MapSeq(arr, F(_)) == [k \in 1..Len(arr) |-> F(arr[k])]

NonEmpty(s) == s # <<>>

----------------------------------------------------------------------------
(* TelegramAPI sanitisers *)

sanitizePollQuestion(question, maxLength) == Trim(Substring0(question, maxLength))

sanitizeOption(option, maxLength) == Trim(Substring0(option, maxLength))

sanitizePollOptions(options, maxLength) ==
    LET cut(o) == sanitizeOption(o, maxLength)
    IN  SelectSeq(MapSeq(options, cut), NonEmpty)

Clamp(x, lo, hi) == IF x < lo THEN lo ELSE IF x > hi THEN hi ELSE x

\* open_period: Math.min(Math.max(openPeriod, 5), 200)
clampOpenPeriod(openPeriod) == Clamp(openPeriod, MinOpenPeriod, MaxOpenPeriod)

\* The validation and payload construction of sendPoll (no network).
sendPollRequest(question, options, correctOptionId, openPeriod) ==
    LET sanitizedQuestion == sanitizePollQuestion(question, PollQuestionLimit)
        sanitizedOptions == sanitizePollOptions(options, PollOptionLimit)
    IN  IF Len(sanitizedOptions) < MinPollOptions \/ Len(sanitizedOptions) > MaxPollOptions
        THEN [error |-> "optionCount"]
        ELSE IF correctOptionId < 0 \/ correctOptionId >= Len(sanitizedOptions)
        THEN [error |-> "correctIndex"]
        ELSE [error |-> "none",
              question |-> sanitizedQuestion,
              options |-> sanitizedOptions,
              correct_option_id |-> correctOptionId,
              open_period |-> clampOpenPeriod(openPeriod)]

----------------------------------------------------------------------------
(* shuffleArray: the set of arrays the Fisher-Yates loop can produce
   (i from length-1 down to 1, j = floor(random * (i + 1)) in 0..i). *)

SwapAt(arr, p, q) == [arr EXCEPT ![p] = arr[q], ![q] = arr[p]]

\* a shuffle that copies instead of swapping
shuffleStepCopy(arr, i) == {[arr EXCEPT ![i] = arr[j]] : j \in 1..i}

shuffleStep(arr, i) == {SwapAt(arr, i, j) : j \in 1..i}

RECURSIVE shuffleFrom(_, _)
shuffleFrom(S, i) ==
    IF i < 2 THEN S
    ELSE shuffleFrom(UNION {shuffleStep(arr, i) : arr \in S}, i - 1)

shuffleArray(arr) == shuffleFrom({arr}, Len(arr))

\* the correct index taken from the list before it is shuffled
shuffleWithStaleIndex(options, correctAnswer) ==
    LET cleanOptions == SelectSeq(MapSeq(options, Trim), NonEmpty)
        cleanCorrectAnswer == Trim(correctAnswer)
    IN  IF Len(cleanOptions) < 2 THEN {[error |-> "tooFewOptions"]}
        ELSE IF ~Includes(cleanOptions, cleanCorrectAnswer)
        THEN {[error |-> "correctNotFound"]}
        ELSE {[error |-> "none", options |-> sh,
               correctIndex |-> IndexOf(cleanOptions, cleanCorrectAnswer)] :
                 sh \in shuffleArray(cleanOptions)}

\* shuffleWithCorrectIndex: every outcome (a thrown error or a shuffle).
shuffleWithCorrectIndex(options, correctAnswer) ==
    LET cleanOptions == SelectSeq(MapSeq(options, Trim), NonEmpty)
        cleanCorrectAnswer == Trim(correctAnswer)
    IN  IF Len(cleanOptions) < 2 THEN {[error |-> "tooFewOptions"]}
        ELSE IF ~Includes(cleanOptions, cleanCorrectAnswer)
        THEN {[error |-> "correctNotFound"]}
        ELSE {[error |-> "none", options |-> sh,
               correctIndex |-> IndexOf(sh, cleanCorrectAnswer)] :
                 sh \in shuffleArray(cleanOptions)}

----------------------------------------------------------------------------
(* MultiUserQuizManager: validation and cleaning *)

\* validation without the options.includes(correctAnswer) test
isValidQuestionNoIncludes(q) ==
    /\ q.question # <<>>
    /\ Len(q.options) >= 2 /\ Len(q.options) <= 10
    /\ q.correctAnswer # <<>>
    /\ \A k \in 1..Len(q.options) : Trim(q.options[k]) # <<>>

isValidQuestion(q) ==
    /\ q.question # <<>>
    /\ Len(q.options) >= 2 /\ Len(q.options) <= 10
    /\ q.correctAnswer # <<>>
    /\ \A k \in 1..Len(q.options) : Trim(q.options[k]) # <<>>
    /\ Includes(q.options, q.correctAnswer)

cleanQuestion(q) ==
    [question |-> Trim(q.question),
     options |-> SelectSeq(MapSeq(q.options, Trim), NonEmpty),
     correctAnswer |-> Trim(q.correctAnswer),
     rowNumber |-> q.rowNumber]

validateAndCleanQuestions(qs) == MapSeq(SelectSeq(qs, isValidQuestion), cleanQuestion)

\* Array.prototype.slice(0, end), negative end counted from the end
Slice0(arr, end) ==
    LET stop == IF end < 0 THEN (IF Len(arr) + end < 0 THEN 0 ELSE Len(arr) + end)
                ELSE (IF end > Len(arr) THEN Len(arr) ELSE end)
    IN  SubSeq(arr, 1, stop)

Min(a, b) == IF a < b THEN a ELSE b
Max(a, b) == IF a > b THEN a ELSE b

NoFunction == [x \in {} |-> x]

\* The QuizSession objects createSession(requestedCount) can store at time t.
newSessions(questions, requestedCount, sessionId, t) ==
    LET count == Min(requestedCount, Len(questions))
    IN  {[sessionId |-> sessionId,
          questions |-> Slice0(sh, count),
          participants |-> NoFunction,
          results |-> NoFunction,
          resultsOrder |-> <<>>,
          isActive |-> TRUE,
          startTime |-> t,
          endTime |-> -1] : sh \in shuffleArray(questions)}

SessionIds == {"s1"}

\* safeInterval = Math.max(1, Math.min(intervalSeconds, 300))
safeIntervalOf(interval) == Max(1, Min(interval, 300))

safeInterval == safeIntervalOf(intervalSeconds)

\* The argument guards at the head of both orchestration functions.
argsAccepted == Len(rawPool) # 0 /\ ~(reqCount <= 0 \/ reqCount > MaxRequestedCount)

\* The text in front of the question: `${i + 1}/${n}. `, by length
Digits(k) == IF k < 10 THEN 1 ELSE IF k < 100 THEN 2 ELSE 3

Concat(s, t) ==
    IF s = <<>> THEN t
    ELSE IF t = <<>> THEN s
    ELSE IF s[Len(s)].c = Head(t).c
         THEN SubSeq(s, 1, Len(s) - 1) \o <<Run(Head(t).c, s[Len(s)].n + Head(t).n)>> \o Tail(t)
         ELSE s \o t

numberedQuestion(i, n, question) ==
    Concat(<<Run("#", Digits(i + 1) + 1 + Digits(n) + 1), Run(" ", 1)>>, question)

----------------------------------------------------------------------------
(* MultiUserQuizManager: participants, results and ranking.
   A Map is a function plus the sequence of its keys in insertion order. *)

Put(f, k, v) == [x \in DOMAIN f \cup {k} |-> IF x = k THEN v ELSE f[x]]

\* Map.set on the key order: a new key goes last, a known key keeps its place
PutOrder(order, k) == IF Includes(order, k) THEN order ELSE Append(order, k)

\* addParticipant on a known, active session
addParticipant(session, userInfo) ==
    [session EXCEPT !.participants = Put(session.participants, userInfo.userId, userInfo)]

\* Array.from(userPollResults.values()).filter((result) => result).length
countCorrect(userPollResults) == Cardinality({q \in DOMAIN userPollResults : userPollResults[q]})

\* the UserResult setSessionResults builds for one user at time t;
\* percentage (correct / total) * 100 is kept as the exact fraction num/den
userResultWithRecordTotal(session, userId, userPollResults, t) ==
    LET correct == countCorrect(userPollResults)
        total == Cardinality(DOMAIN userPollResults)
    IN  [userId |-> userId,
         correct |-> correct,
         incorrect |-> total - correct,
         total |-> total,
         percentage |-> IF total > 0 THEN [num |-> correct * 100, den |-> total]
                        ELSE [num |-> 0, den |-> 1],
         completionTime |-> t - session.participants[userId].startTime,
         rank |-> 0]

\* a UserResult whose completion time counts from the session's start
userResultFromSessionStart(session, userId, userPollResults, t) ==
    LET correct == countCorrect(userPollResults)
        total == Len(session.questions)
    IN  [userId |-> userId,
         correct |-> correct,
         incorrect |-> total - correct,
         total |-> total,
         percentage |-> IF total > 0 THEN [num |-> correct * 100, den |-> total]
                        ELSE [num |-> 0, den |-> 1],
         completionTime |-> t - session.startTime,
         rank |-> 0]

userResultOf(session, userId, userPollResults, t) ==
    LET correct == countCorrect(userPollResults)
        total == Len(session.questions)
    IN  [userId |-> userId,
         correct |-> correct,
         incorrect |-> total - correct,
         total |-> total,
         percentage |-> IF total > 0 THEN [num |-> correct * 100, den |-> total]
                        ELSE [num |-> 0, den |-> 1],
         completionTime |-> t - session.participants[userId].startTime,
         rank |-> 0]

\* the comparator of calculateRankings, by completion time only
compareByTimeOnly(a, b) == a.completionTime - b.completionTime

\* the comparator of calculateRankings: negative when a sorts before b
compareResults(a, b) ==
    IF b.correct # a.correct THEN b.correct - a.correct
    ELSE a.completionTime - b.completionTime

\* Array.prototype.sort is stable: x goes behind every element it does not precede
RECURSIVE insertSorted(_, _)
insertSorted(sorted, x) ==
    IF sorted = <<>> THEN <<x>>
    ELSE IF compareResults(Head(sorted), x) <= 0
         THEN <<Head(sorted)>> \o insertSorted(Tail(sorted), x)
         ELSE <<x>> \o sorted

RECURSIVE sortResults(_)
sortResults(arr) ==
    IF arr = <<>> THEN <<>>
    ELSE insertSorted(sortResults(SubSeq(arr, 1, Len(arr) - 1)), arr[Len(arr)])

\* ranks counted from 0
calculateRankingsFromZero(session) ==
    LET values == [k \in 1..Len(session.resultsOrder) |-> session.results[session.resultsOrder[k]]]
        sortedResults == sortResults(values)
        rankOf(u) == CHOOSE k \in 1..Len(sortedResults) : sortedResults[k].userId = u
    IN  [session EXCEPT !.results = [u \in DOMAIN session.results |->
                                       [session.results[u] EXCEPT !.rank = rankOf(u) - 1]]]

\* calculateRankings: rank = index + 1 in the sorted array
calculateRankings(session) ==
    LET values == [k \in 1..Len(session.resultsOrder) |-> session.results[session.resultsOrder[k]]]
        sortedResults == sortResults(values)
        rankOf(u) == CHOOSE k \in 1..Len(sortedResults) : sortedResults[k].userId = u
    IN  [session EXCEPT !.results = [u \in DOMAIN session.results |->
                                       [session.results[u] EXCEPT !.rank = rankOf(u)]]]

\* the loop of setSessionResults over results.entries(), in insertion order
RECURSIVE storeResults(_, _, _, _)
storeResults(session, results, order, t) ==
    IF order = <<>> THEN session
    ELSE LET userId == Head(order)
             next == IF userId \in DOMAIN session.participants
                     THEN [session EXCEPT
                             !.results = Put(session.results, userId,
                                             userResultOf(session, userId, results[userId], t)),
                             !.resultsOrder = PutOrder(session.resultsOrder, userId)]
                     ELSE session
         IN  storeResults(next, results, Tail(order), t)

\* setSessionResults(sessionId, results) at time t
setSessionResults(session, results, order, t) ==
    [calculateRankings(storeResults(session, results, order, t))
        EXCEPT !.isActive = FALSE, !.endTime = t]

\* getRankings: Array.from(session.results.values()) in insertion order, sorted
\* (stably) by (a.rank || 0) - (b.rank || 0)
getRankings(session) ==
    LET values == [k \in 1..Len(session.resultsOrder) |->
                      session.results[session.resultsOrder[k]]]
        RECURSIVE insertByRank(_, _)
        insertByRank(sorted, x) ==
            IF sorted = <<>> THEN <<x>>
            ELSE IF Head(sorted).rank - x.rank <= 0
                 THEN <<Head(sorted)>> \o insertByRank(Tail(sorted), x)
                 ELSE <<x>> \o sorted
        RECURSIVE sortByRank(_)
        sortByRank(arr) ==
            IF arr = <<>> THEN <<>>
            ELSE insertByRank(sortByRank(SubSeq(arr, 1, Len(arr) - 1)), arr[Len(arr)])
    IN  sortByRank(values)

----------------------------------------------------------------------------
(* Inputs of the manager-level specifications *)

S_a == <<Run("a", 1)>>
S_b == <<Run("b", 1)>>
S_pad_a == <<Run(" ", 1), Run("a", 1), Run(" ", 1)>>
S_long_ab == <<Run("a", PollOptionLimit), Run("b", 1)>>
S_long_a == <<Run("a", PollOptionLimit)>>
S_a_gap_b == <<Run("a", 1), Run(" ", PollOptionLimit - 1), Run("b", 1)>>
S_blank == <<Run(" ", 1)>>
S_empty == <<>>
S_long_q == <<Run("a", PollQuestionLimit + 1)>>

OptionTexts == {S_a, S_b, S_pad_a, S_long_ab, S_long_a, S_a_gap_b, S_blank, S_empty}
QuestionTexts == {S_a, S_long_q, S_empty}

SeqsUpTo(S, n) == UNION {[1..k -> S] : k \in 0..n}

\* option lists: every list of up to MaxOptions texts, and lists at the
\* platform's upper limit and one past it
OptionLists ==
    SeqsUpTo(OptionTexts, MaxOptions) \cup
    {[k \in 1..n |-> IF k = 1 THEN S_b ELSE S_a] :
        n \in {MaxPollOptions, MaxPollOptions + 1}}

RawQuestions ==
    [question : QuestionTexts, options : OptionLists,
     correctAnswer : OptionTexts, rowNumber : {2}]

\* pools for createSession: rows of an Excel sheet, row r at position r - 1
PoolQuestion(kind, row) ==
    [question |-> S_a,
     options |-> IF kind = "blankOption" THEN <<S_a, S_blank>> ELSE <<S_pad_a, S_b>>,
     correctAnswer |-> IF kind = "noCorrect" THEN S_long_a
                       ELSE IF kind = "blankOption" THEN S_a ELSE S_pad_a,
     rowNumber |-> row]

PoolKinds == {"valid", "blankOption", "noCorrect"}

Pools == {[k \in 1..Len(ks) |-> PoolQuestion(ks[k], k + 1)] : ks \in SeqsUpTo(PoolKinds, MaxPool)}

IntervalInputs == {1, 45, 400}

----------------------------------------------------------------------------
(* Manager-level steps *)

\* argument guards and `new MultiUserQuizManager(questions)`
NewManager ==
    /\ pc = "args"
    /\ IF argsAccepted
       THEN /\ mgrQuestions' = validateAndCleanQuestions(rawPool)
            /\ pc' = "constructed"
       ELSE /\ pc' = "rejected"
            /\ UNCHANGED mgrQuestions
    /\ UNCHANGED <<argVars, unitVars, sessions, sid, dispVars, runVars>>

\* quizManager.createSession(requestedCount)
CreateSession ==
    /\ pc = "constructed"
    /\ IF Len(mgrQuestions) = 0
       THEN /\ pc' = "emptyPool"
            /\ UNCHANGED <<sessions, sid>>
       ELSE \E id \in SessionIds \ DOMAIN sessions :
              \E s \in newSessions(mgrQuestions, reqCount, id, 0) :
                /\ sessions' = [x \in DOMAIN sessions \cup {id} |->
                                   IF x = id THEN s ELSE sessions[x]]
                /\ sid' = id
                /\ pc' = "created"
    /\ UNCHANGED <<argVars, unitVars, mgrQuestions, dispVars, runVars>>

\* head of the question loop: shuffleWithCorrectIndex(options, correctAnswer)
ShuffleQuestion ==
    /\ pc = "loop"
    /\ qi < Len(sessions[sid].questions)
    /\ LET q == sessions[sid].questions[qi + 1]
       IN  \E sh \in shuffleWithCorrectIndex(q.options, q.correctAnswer) :
             /\ shuffled' = sh
             /\ pc' = IF sh.error = "none" THEN "shuffled" ELSE "integrityError"
    /\ batchStart' = 0
    /\ settled' = {}
    /\ UNCHANGED <<failure, argVars, unitVars, mgrVars, qi, pollReq, now, regIdx, validUserIds,
                   collVars, platVars, histVars>>

\* sendPoll up to the request it hands to makeRequestWithRetry
BuildPoll ==
    /\ pc = "shuffled"
    /\ LET q == sessions[sid].questions[qi + 1]
           n == Len(sessions[sid].questions)
       IN  pollReq' = sendPollRequest(numberedQuestion(qi, n, q.question),
                                      shuffled.options, shuffled.correctIndex, safeInterval)
    /\ pc' = IF pollReq'.error = "none" THEN "polled" ELSE "pollError"
    /\ UNCHANGED <<argVars, unitVars, mgrVars, qi, shuffled, runVars>>

NoPoll == [error |-> "unsent"]
NoShuffle == [error |-> "unset"]

\* the error thrown to the caller: `new Error(prefix + errorMessage)`
NotThrown == [prefix |-> "", message |-> "none"]

\* nothing has been thrown inside the orchestration's try block
NoFailure == [caught |-> "none", reached |-> {}, thrown |-> NotThrown]

\* the catch block is entered with an error whose message is errorMessage
Caught(errorMessage) == [NoFailure EXCEPT !.caught = errorMessage]

InitRun ==
    /\ now = 0
    /\ regIdx = 0
    /\ validUserIds = <<>>
    /\ batchStart = 0
    /\ settled = {}
    /\ userStates = NoFunction
    /\ collResults = NoFunction
    /\ collOrder = <<>>
    /\ startTime = 0
    /\ offset = 0
    /\ polls = <<>>
    /\ updates = <<>>
    /\ confirmed = 0
    /\ delivered = <<>>
    /\ cycles = <<>>
    /\ failure = NoFailure

NoCall == [op |-> "none", pc |-> "returned"]

\* the component-level state while only the orchestration is looked at
InitUnits ==
    /\ clock = 0
    /\ lastRequestTime = 0
    /\ callers = NoFunction
    /\ api = NoCall
    /\ events = <<>>
    /\ mgrCall = NoCall

InitManager ==
    /\ pc = "args"
    /\ InitRun
    /\ InitUnits
    /\ mode = "multi"
    /\ userIds = <<>>
    /\ mgrQuestions = <<>>
    /\ sessions = NoFunction
    /\ sid = "none"
    /\ qi = 0
    /\ shuffled = NoShuffle
    /\ pollReq = NoPoll

InitCreate ==
    /\ InitManager
    /\ rawPool \in Pools
    /\ reqCount \in -1..MaxRequested
    /\ intervalSeconds = 45

NextCreate == NewManager \/ CreateSession

SpecCreate == InitCreate /\ [][NextCreate]_vars

\* the head of the question loop for the session of a one-question pool
InitDispatch ==
    /\ InitRun
    /\ InitUnits
    /\ mode = "multi"
    /\ userIds = <<>>
    /\ rawPool \in {<<q>> : q \in RawQuestions}
    /\ reqCount = 1
    /\ intervalSeconds \in IntervalInputs
    /\ mgrQuestions = validateAndCleanQuestions(rawPool)
    /\ qi = 0
    /\ shuffled = NoShuffle
    /\ pollReq = NoPoll
    /\ IF Len(mgrQuestions) = 0
       THEN pc = "emptyPool" /\ sessions = NoFunction /\ sid = "none"
       ELSE /\ pc = "loop"
            /\ sid \in SessionIds
            /\ \E s \in newSessions(mgrQuestions, reqCount, sid, 0) :
                 sessions = [x \in {sid} |-> s]

NextDispatch == ShuffleQuestion \/ BuildPoll

SpecDispatch == InitDispatch /\ [][NextDispatch]_vars

----------------------------------------------------------------------------
(* PollResultsCollector *)

\* setUserPollState(userId, pollId, questionIndex, correctOptionId)
setUserPollState(c, userId, pollId, questionIndex, correctOptionId) ==
    [c EXCEPT
       !.states = Put(c.states, userId,
                      [expectedPollId |-> pollId, questionIndex |-> questionIndex,
                       correctOptionId |-> correctOptionId, isAnswered |-> FALSE]),
       !.results = IF userId \in DOMAIN c.results THEN c.results
                   ELSE Put(c.results, userId, NoFunction),
       !.order = PutOrder(c.order, userId)]

\* allUsersAnswered() of waitForSinglePollResult
allUsersAnswered(states, ids) ==
    \A k \in 1..Len(ids) : ids[k] \in DOMAIN states /\ states[ids[k]].isAnswered

\* an answer test that forgets the isAnswered flag
acceptsAnswerAgain(state, poll_id) == state.expectedPollId = poll_id

\* state.expectedPollId === poll_id && !state.isAnswered
acceptsAnswer(state, poll_id) == state.expectedPollId = poll_id /\ ~state.isAnswered

\* an update loop that records every answer of a user who has an expectation
processUpdateAnyPoll(c, update) ==
    LET userId == update.user
        state == c.states[userId]
        c1 == IF userId \in DOMAIN c.states
              THEN [c EXCEPT
                      !.results[userId] = Put(@, state.questionIndex,
                                              state.correctOptionId \in update.option_ids),
                      !.states[userId].isAnswered = TRUE]
              ELSE c
    IN  [c1 EXCEPT !.offset = update.update_id + 1]

\* the body of `for (const update of updates)` for one update
processUpdate(c, update) ==
    LET userId == update.user
        hit == userId \in DOMAIN c.states /\ acceptsAnswer(c.states[userId], update.poll_id)
        state == c.states[userId]
        isCorrect == state.correctOptionId \in update.option_ids
        c1 == IF hit
              THEN [c EXCEPT
                      !.results[userId] = Put(@, state.questionIndex, isCorrect),
                      !.states[userId].isAnswered = TRUE]
              ELSE c
    IN  [c1 EXCEPT !.offset = update.update_id + 1]

RECURSIVE processUpdates(_, _)
processUpdates(c, batch) ==
    IF batch = <<>> THEN c
    ELSE processUpdates(processUpdate(c, Head(batch)), Tail(batch))

collector == [states |-> userStates, results |-> collResults,
              order |-> collOrder, offset |-> offset]

\* while (Date.now() - startTime < timeoutMs && !allUsersAnswered())
loopContinues ==
    now - startTime < safeInterval /\ ~allUsersAnswered(userStates, validUserIds)

----------------------------------------------------------------------------
(* The platform *)

LongPollTimeout == 30       \* getUpdates payload timeout
BatchSize == 5              \* polls sent concurrently
MaxRetries == 3

\* Math.pow(2, attempt) seconds
RECURSIVE backoffSeconds(_)
backoffSeconds(attempt) == IF attempt = 0 THEN 1 ELSE 2 * backoffSeconds(attempt - 1)

\* sleeps of a makeRequestWithRetry call that fails on every attempt
RECURSIVE backoffTotal(_)
backoffTotal(attempt) ==
    IF attempt >= MaxRetries THEN 0 ELSE backoffSeconds(attempt) + backoffTotal(attempt + 1)

\* the platform acknowledges everything below a given offset
\* (`if (offset) payload.offset = offset`: 0 is not sent)
acknowledged(off) == IF off > 0 /\ off - 1 > confirmed THEN off - 1 ELSE confirmed

\* what getUpdates(offset) returns: every update not yet acknowledged
pendingUpdates(off) == SubSeq(updates, acknowledged(off) + 1, Len(updates))

pollIsOpen(p) == now < polls[p].sentAt + polls[p].openPeriod

answersTo(p) == {k \in 1..Len(updates) : updates[k].poll_id = p}

----------------------------------------------------------------------------
(* The orchestration: sendQuizToTelegram / sendMultiUserQuizToTelegram *)

session == sessions[sid]

LookupDelays == {1}                     \* seconds of a getChat round trip
GetUpdatesDelays == {0, LongPollTimeout} \* immediate answer, or held by the long poll

\* the message of the error getUserInfo throws
LookupError == "Foydalanuvchi ma'lumotlari olishda xato"

\* the message of the error a Bot API request throws after its retries
RequestError == "HTTP 500"

\* registration: getUserInfo + addParticipant for the next requested user;
\* multi: a failure is reported to config.userId with sendMessage, whose own
\* error leaves the registration loop; single: a failure is terminal
RegisterUser ==
    /\ pc = "created"
    /\ regIdx < Len(userIds)
    /\ LET userId == userIds[regIdx + 1]
           outcomes == IF mode = "multi" THEN {"ok", "lookupFailed", "warningFailed"}
                       ELSE {"ok", "lookupFailed"}
       IN  \E outcome \in outcomes, d \in LookupDelays :
             /\ now' = now + d
             /\ regIdx' = regIdx + 1
             /\ IF outcome = "ok"
                THEN /\ sessions' = [sessions EXCEPT ![sid] =
                           addParticipant(@, [userId |-> userId, startTime |-> now',
                                              isActive |-> TRUE])]
                     /\ validUserIds' = Append(validUserIds, userId)
                     /\ pc' = "created"
                     /\ UNCHANGED failure
                ELSE /\ UNCHANGED <<sessions, validUserIds>>
                     /\ IF mode = "multi" /\ outcome = "lookupFailed"
                        THEN pc' = "created" /\ UNCHANGED failure
                        ELSE /\ pc' = "failed"
                             /\ failure' = Caught(IF outcome = "lookupFailed" THEN LookupError
                                                  ELSE RequestError)
    /\ UNCHANGED <<argVars, unitVars, mgrQuestions, sid, dispVars, batchStart, settled,
                   collVars, platVars, histVars>>

\* a quiz that starts whoever has registered
BeginQuizUnchecked ==
    /\ pc = "created"
    /\ regIdx = Len(userIds)
    /\ \E sent \in BOOLEAN :
         IF mode = "single" /\ ~sent
         THEN pc' = "failed" /\ failure' = Caught(RequestError) /\ UNCHANGED now
         ELSE /\ pc' = "loop"
              /\ now' = now + 2 + (IF mode = "multi" THEN 1 ELSE 0)
              /\ UNCHANGED failure
    /\ UNCHANGED <<argVars, unitVars, mgrVars, dispVars, regIdx, validUserIds, batchStart, settled,
                   collVars, platVars, histVars>>

\* after registration: `if (validUserIds.length === 0) throw`, the start
\* message(s) and delay(2000)
BeginQuiz ==
    /\ pc = "created"
    /\ regIdx = Len(userIds)
    /\ IF validUserIds = <<>>
       THEN /\ pc' = "failed"
            /\ failure' = Caught("Hech bir foydalanuvchi topilmadi")
            /\ UNCHANGED now
       ELSE \E sent \in BOOLEAN :
              IF mode = "single" /\ ~sent
              THEN pc' = "failed" /\ failure' = Caught(RequestError) /\ UNCHANGED now
              ELSE /\ pc' = "loop"
                   /\ now' = now + 2 + (IF mode = "multi" THEN 1 ELSE 0)
                   /\ UNCHANGED failure
    /\ UNCHANGED <<argVars, unitVars, mgrVars, dispVars, regIdx, validUserIds, batchStart, settled,
                   collVars, platVars, histVars>>

currentBatch ==
    {k \in 1..Len(validUserIds) : k > batchStart /\ k <= batchStart + BatchSize}

\* the request sendPoll builds for the question in hand
currentPoll ==
    LET q == session.questions[qi + 1]
    IN  sendPollRequest(numberedQuestion(qi, Len(session.questions), q.question),
                        shuffled.options, shuffled.correctIndex, safeInterval)

\* the poll the platform creates for recipient userId
createdPoll(userId, req) ==
    [user |-> userId, q |-> qi, correctId |-> req.correct_option_id,
     options |-> Len(req.options), sentAt |-> now, openPeriod |-> req.open_period]

\* a failed getUpdates call whose error leaves waitForSinglePollResult
GetUpdatesFailPropagating ==
    /\ pc = "waiting"
    /\ loopContinues
    /\ now' = now + backoffTotal(1)
    /\ pc' = "failed"
    /\ failure' = Caught(RequestError)
    /\ UNCHANGED <<argVars, unitVars, mgrVars, dispVars, regIdx, validUserIds, batchStart, settled,
                   collVars, platVars, histVars>>

\* a fan-out in which the first rejected sendPoll ends the run
SendPollToAborting(k) ==
    /\ pc = "shuffled"
    /\ mode = "multi"
    /\ k \in currentBatch \ settled
    /\ settled' = settled \cup {k}
    /\ \E delivered_ok \in BOOLEAN :
         IF delivered_ok /\ currentPoll.error = "none"
         THEN LET c == setUserPollState(collector, validUserIds[k], Len(polls) + 1,
                                        qi, shuffled.correctIndex)
              IN  /\ polls' = Append(polls, createdPoll(validUserIds[k], currentPoll))
                  /\ userStates' = c.states
                  /\ collResults' = c.results
                  /\ collOrder' = c.order
                  /\ UNCHANGED <<pc, failure>>
         ELSE /\ pc' = "failed"
              /\ failure' = Caught(IF currentPoll.error = "none" THEN RequestError
                                   ELSE currentPoll.error)
              /\ UNCHANGED <<polls, userStates, collResults, collOrder>>
    /\ UNCHANGED <<argVars, unitVars, mgrVars, dispVars, now, regIdx, validUserIds, batchStart,
                   startTime, offset, updates, confirmed, histVars>>

\* one promise of the fan-out: sendPoll to validUserIds[k], then setUserPollState;
\* a failure is caught and logged
SendPollTo(k) ==
    /\ pc = "shuffled"
    /\ mode = "multi"
    /\ k \in currentBatch \ settled
    /\ settled' = settled \cup {k}
    /\ \E delivered_ok \in BOOLEAN :
         IF delivered_ok /\ currentPoll.error = "none"
         THEN LET c == setUserPollState(collector, validUserIds[k], Len(polls) + 1,
                                        qi, shuffled.correctIndex)
              IN  /\ polls' = Append(polls, createdPoll(validUserIds[k], currentPoll))
                  /\ userStates' = c.states
                  /\ collResults' = c.results
                  /\ collOrder' = c.order
         ELSE UNCHANGED <<polls, userStates, collResults, collOrder>>
    /\ UNCHANGED <<failure, pc, argVars, unitVars, mgrVars, dispVars, now, regIdx, validUserIds, batchStart,
                   startTime, offset, updates, confirmed, histVars>>

\* the fan-out joined without running the collection cycle
JoinBatchNoAwait ==
    /\ pc = "shuffled"
    /\ mode = "multi"
    /\ currentBatch \subseteq settled
    /\ now' = now + 1
    /\ pc' = "loop"
    /\ qi' = qi + 1
    /\ UNCHANGED <<failure, argVars, unitVars, mgrVars, shuffled, pollReq, regIdx, validUserIds, batchStart,
                   settled, collVars, platVars, histVars>>

\* Promise.allSettled + delay(1000); after the last batch waitForSinglePollResult starts
JoinBatch ==
    /\ pc = "shuffled"
    /\ mode = "multi"
    /\ currentBatch \subseteq settled
    /\ now' = now + 1
    /\ IF batchStart + BatchSize < Len(validUserIds)
       THEN /\ batchStart' = batchStart + BatchSize
            /\ UNCHANGED <<pc, startTime, offset, settled>>
       ELSE /\ pc' = "waiting"
            /\ startTime' = now'
            /\ offset' = 0
            /\ batchStart' = 0
            /\ settled' = {}
    /\ UNCHANGED <<failure, argVars, unitVars, mgrVars, dispVars, regIdx, validUserIds,
                   userStates, collResults, collOrder, platVars, histVars>>

\* single user: sendPoll, setUserPollState, then waitForSinglePollResult starts;
\* a sendPoll failure is terminal
SendPollSingle ==
    /\ pc = "shuffled"
    /\ mode = "single"
    /\ \E delivered_ok \in BOOLEAN :
         IF delivered_ok /\ currentPoll.error = "none"
         THEN LET userId == userIds[1]
                  c == setUserPollState(collector, userId, Len(polls) + 1,
                                        qi, shuffled.correctIndex)
              IN  /\ polls' = Append(polls, createdPoll(userId, currentPoll))
                  /\ userStates' = c.states
                  /\ collResults' = c.results
                  /\ collOrder' = c.order
                  /\ pc' = "waiting"
                  /\ startTime' = now
                  /\ offset' = 0
                  /\ UNCHANGED failure
         ELSE /\ pc' = "failed"
              /\ failure' = Caught(IF currentPoll.error = "none" THEN RequestError
                                   ELSE currentPoll.error)
              /\ UNCHANGED <<polls, collVars>>
    /\ UNCHANGED <<argVars, unitVars, mgrVars, dispVars, orchVars, updates, confirmed, histVars>>

Bump(counts, from) == [k \in 1..Len(counts) |->
                         IF k >= from /\ counts[k] < 2 THEN counts[k] + 1 ELSE counts[k]]

\* one loop iteration whose getUpdates call succeeds after d seconds: the
\* platform answers at once (with the pending updates, or because an answer to
\* a poll outside the quiz arrived) or, having nothing pending, holds the call
\* for the long-poll timeout
GetUpdatesOk ==
    /\ pc = "waiting"
    /\ loopContinues
    /\ \E d \in GetUpdatesDelays :
         LET c == processUpdates(collector, pendingUpdates(offset))
         IN  /\ d = 0 \/ pendingUpdates(offset) = <<>>
             /\ now' = now + d
             /\ confirmed' = acknowledged(offset)
             /\ delivered' = Bump(delivered, acknowledged(offset) + 1)
             /\ userStates' = c.states
             /\ collResults' = c.results
             /\ offset' = c.offset
             /\ pc' = IF allUsersAnswered(c.states, validUserIds) THEN "waiting"
                      ELSE "sleepAfterBatch"
    /\ UNCHANGED <<failure, argVars, unitVars, mgrVars, dispVars, regIdx, validUserIds, batchStart, settled,
                   collOrder, startTime, polls, updates, cycles>>

\* one loop iteration whose getUpdates call throws after its retries
GetUpdatesFail ==
    /\ pc = "waiting"
    /\ loopContinues
    /\ now' = now + backoffTotal(1)
    /\ pc' = "sleepAfterError"
    /\ UNCHANGED <<failure, argVars, unitVars, mgrVars, dispVars, regIdx, validUserIds, batchStart, settled,
                   collVars, platVars, histVars>>

\* a sleep during which no time passes
SleepFrozen ==
    /\ pc \in {"sleepAfterBatch", "sleepAfterError"}
    /\ pc' = "waiting"
    /\ UNCHANGED <<failure, argVars, unitVars, mgrVars, dispVars, now, regIdx, validUserIds,
                   batchStart, settled, collVars, platVars, histVars>>

\* await delay(1000) / await delay(2000)
Sleep ==
    /\ pc \in {"sleepAfterBatch", "sleepAfterError"}
    /\ now' = now + (IF pc = "sleepAfterBatch" THEN 1 ELSE 2)
    /\ pc' = "waiting"
    /\ UNCHANGED <<failure, argVars, unitVars, mgrVars, dispVars, regIdx, validUserIds, batchStart, settled,
                   collVars, platVars, histVars>>

\* waitForSinglePollResult returns (its locals and shuffledData go out of
\* scope); getResults and setSessionResults follow
EndCycle ==
    /\ pc = "waiting"
    /\ ~loopContinues
    /\ cycles' = Append(cycles, [q |-> qi, elapsed |-> now - startTime,
                                 answered |-> allUsersAnswered(userStates, validUserIds)])
    /\ sessions' = [sessions EXCEPT ![sid] = setSessionResults(@, collResults, collOrder, now)]
    /\ qi' = qi + 1
    /\ pc' = "loop"
    /\ startTime' = 0
    /\ offset' = 0
    /\ shuffled' = NoShuffle
    /\ UNCHANGED <<failure, argVars, unitVars, mgrQuestions, sid, pollReq, orchVars, userStates, collResults,
                   collOrder, platVars, delivered>>

\* after the last question: the rankings are read and announced
Finish ==
    /\ pc = "loop"
    /\ qi = Len(session.questions)
    /\ IF mode = "multi" THEN pc' = "done" /\ UNCHANGED failure
       ELSE IF DOMAIN session.results = {}
       THEN pc' = "failed" /\ failure' = Caught("Natijalar topilmadi")
       ELSE \E sent \in BOOLEAN :
              IF sent THEN pc' = "done" /\ UNCHANGED failure
              ELSE pc' = "failed" /\ failure' = Caught(RequestError)
    /\ UNCHANGED <<argVars, unitVars, mgrVars, dispVars, orchVars, collVars, platVars, histVars>>

\* catch of sendQuizToTelegram: the notification to config.userId is awaited
\* unguarded, then the error is thrown again under the function's prefix
NotifyFailureSingle ==
    /\ pc = "failed"
    /\ mode = "single"
    /\ \E notified \in BOOLEAN :
         failure' = [failure EXCEPT
                       !.reached = IF notified THEN {userIds[1]} ELSE {},
                       !.thrown = IF notified
                                  THEN [prefix |-> "Quiz yuborishda xato: ",
                                        message |-> failure.caught]
                                  ELSE [prefix |-> "", message |-> RequestError]]
    /\ pc' = "thrown"
    /\ UNCHANGED <<argVars, unitVars, mgrVars, dispVars, orchVars, collVars, platVars, histVars>>

\* a broadcast that lets the first failed sendMessage out
sendMessageToAllUsersUnguarded(ids, reached) ==
    [error |-> IF \A k \in 1..Len(ids) : ids[k] \in reached THEN "none" ELSE RequestError,
     seconds |-> (Len(ids) + 9) \div 10]

\* sendMessageToAllUsers(api, ids, message) when the message reaches the users
\* in `reached`: every sendMessage error is caught and logged, and each batch
\* of 10 is followed by delay(1000)
sendMessageToAllUsers(ids, reached) ==
    [error |-> "none", seconds |-> (Len(ids) + 9) \div 10]

\* catch of sendMultiUserQuizToTelegram: the notification goes to all of
\* userIds, then the error is thrown again under the function's prefix
NotifyFailureMulti ==
    /\ pc = "failed"
    /\ mode = "multi"
    /\ \E reached \in SUBSET {userIds[k] : k \in 1..Len(userIds)} :
         LET sent == sendMessageToAllUsers(userIds, reached)
         IN  /\ failure' = [failure EXCEPT
                              !.reached = reached,
                              !.thrown = IF sent.error = "none"
                                         THEN [prefix |-> "Multi-user quiz yuborishda xato: ",
                                               message |-> failure.caught]
                                         ELSE [prefix |-> "", message |-> sent.error]]
             /\ now' = now + sent.seconds
    /\ pc' = "thrown"
    /\ UNCHANGED <<argVars, unitVars, mgrVars, dispVars, regIdx, validUserIds, batchStart, settled,
                   collVars, platVars, histVars>>

\* a participant answers an open poll with option opt.  The program sees
\* answers only through getUpdates, so an answer given while the polls are
\* being sent is taken when the collection cycle is entered, at the same time.
UserAnswers(p, opt) ==
    /\ p \in 1..Len(polls)
    /\ pc \in {"waiting", "sleepAfterBatch", "sleepAfterError"}
    /\ pollIsOpen(p)
    /\ opt \in 0..(polls[p].options - 1)
    /\ Len(updates) < MaxUpdates
    /\ updates' = Append(updates, [update_id |-> Len(updates) + 1, user |-> polls[p].user,
                                   poll_id |-> p, option_ids |-> {opt},
                                   inTime |-> polls[p].q = qi /\ now - startTime < safeInterval])
    /\ delivered' = Append(delivered, 0)
    /\ UNCHANGED <<failure, pc, argVars, unitVars, mgrVars, dispVars, orchVars, collVars, polls, confirmed, cycles>>

QuizPool == <<PoolQuestion("valid", 2), PoolQuestion("valid", 3)>>

InitQuiz ==
    /\ pc = "args"
    /\ InitRun
    /\ InitUnits
    /\ rawPool = QuizPool
    /\ reqCount \in 1..Len(QuizPool)
    /\ mgrQuestions = <<>>
    /\ sessions = NoFunction
    /\ sid = "none"
    /\ qi = 0
    /\ shuffled = NoShuffle
    /\ pollReq = NoPoll

AnswerStep == \E p \in 1..Len(polls), opt \in 0..(MaxPollOptions - 1) : UserAnswers(p, opt)

RunIntervals == {1, 2}

\* sendQuizToTelegram(QuizPool, {userId: "u1"}, reqCount, intervalSeconds) or
\* sendMultiUserQuizToTelegram(QuizPool, config, ["u1", "u2"], reqCount, intervalSeconds)
Init ==
    /\ InitQuiz
    /\ mode \in {"single", "multi"}
    /\ userIds = IF mode = "single" THEN <<"u1">> ELSE <<"u1", "u2">>
    /\ intervalSeconds \in RunIntervals

Next ==
    \/ NewManager
    \/ CreateSession
    \/ RegisterUser
    \/ BeginQuiz
    \/ ShuffleQuestion
    \/ \E k \in 1..Len(validUserIds) : SendPollTo(k)
    \/ JoinBatch
    \/ SendPollSingle
    \/ GetUpdatesOk
    \/ GetUpdatesFail
    \/ Sleep
    \/ EndCycle
    \/ Finish
    \/ NotifyFailureSingle
    \/ NotifyFailureMulti
    \/ AnswerStep

Spec == Init /\ [][Next]_vars

\* sendQuizToTelegram(QuizPool, {userId: "u1"}, reqCount, intervalSeconds) beside
\* sendMultiUserQuizToTelegram(QuizPool, config, ["u1"], reqCount, intervalSeconds)
InitSolo ==
    /\ InitQuiz
    /\ mode \in {"single", "multi"}
    /\ userIds = <<"u1">>
    /\ intervalSeconds \in RunIntervals

SpecSolo == InitSolo /\ [][Next]_vars

\* the steps of sendMultiUserQuizToTelegram, without the participants' answers
ProgramMulti ==
    \/ NewManager
    \/ CreateSession
    \/ RegisterUser
    \/ BeginQuiz
    \/ ShuffleQuestion
    \/ \E k \in 1..Len(validUserIds) : SendPollTo(k)
    \/ JoinBatch
    \/ GetUpdatesOk
    \/ GetUpdatesFail
    \/ Sleep
    \/ EndCycle
    \/ Finish
    \/ NotifyFailureMulti

NextMulti == ProgramMulti \/ AnswerStep

\* sendMultiUserQuizToTelegram(QuizPool, config, ["u1", "u2"], 1, 10): a timeout
\* longer than the backoff of a failed getUpdates call
InitLong ==
    /\ InitQuiz
    /\ mode = "multi"
    /\ userIds = <<"u1", "u2">>
    /\ reqCount = 1
    /\ intervalSeconds = 10

SpecLong == InitLong /\ [][NextMulti]_vars

\* sendMultiUserQuizToTelegram(QuizPool, config, ["u1", "u2"], 1, 3), where
\* every pending step of the program is taken in the end: time advances and
\* every awaited call returns or fails
InitFair ==
    /\ InitQuiz
    /\ mode = "multi"
    /\ userIds = <<"u1", "u2">>
    /\ reqCount = 1
    /\ intervalSeconds = 3

SpecFair == InitFair /\ [][NextMulti]_vars /\ WF_vars(ProgramMulti)

----------------------------------------------------------------------------
(* MultiUserQuizManager called directly: sessions opened, joined and closed *)

ManagerSessionIds == {"s1", "s2"}       \* what crypto.randomUUID() returns
UnknownSessionId == "s0"                \* an id createSession never returned
Users == {"u1", "u2"}

\* addParticipant that does not look at isActive
addParticipantToAnySession(ss, sessionId, userInfo) ==
    IF sessionId \notin DOMAIN ss
    THEN [error |-> "Sessiya topilmadi", sessions |-> ss]
    ELSE [error |-> "none",
          sessions |-> [ss EXCEPT ![sessionId] = addParticipant(@, userInfo)]]

\* addParticipant(sessionId, userInfo) on the sessions map ss
addParticipantTo(ss, sessionId, userInfo) ==
    IF sessionId \notin DOMAIN ss
    THEN [error |-> "Sessiya topilmadi", sessions |-> ss]
    ELSE IF ~ss[sessionId].isActive
    THEN [error |-> "Sessiya allaqachon tugagan", sessions |-> ss]
    ELSE [error |-> "none",
          sessions |-> [ss EXCEPT ![sessionId] = addParticipant(@, userInfo)]]

userInfoOf(userId) == [userId |-> userId, startTime |-> now, isActive |-> TRUE]

\* createSession(reqCount) returning the id `id`
CallCreateSession(id) ==
    /\ pc = "manager"
    /\ id \in ManagerSessionIds \ DOMAIN sessions
    /\ Len(mgrQuestions) > 0
    /\ \E s \in newSessions(mgrQuestions, reqCount, id, now) :
         sessions' = [x \in DOMAIN sessions \cup {id} |-> IF x = id THEN s ELSE sessions[x]]
    /\ mgrCall' = [op |-> "createSession", sessionId |-> id, userId |-> "", error |-> "none"]
    /\ UNCHANGED <<pc, argVars, mgrQuestions, sid, dispVars, runVars, limiterVars, clientVars>>

\* addParticipant(id, userInfo of userId)
CallAddParticipant(id, userId) ==
    /\ pc = "manager"
    /\ LET r == addParticipantTo(sessions, id, userInfoOf(userId))
       IN  /\ sessions' = r.sessions
           /\ mgrCall' = [op |-> "addParticipant", sessionId |-> id, userId |-> userId,
                          error |-> r.error]
    /\ UNCHANGED <<pc, argVars, mgrQuestions, sid, dispVars, runVars, limiterVars, clientVars>>

\* the collector results the direct calls hand to setSessionResults, with the
\* insertion order of their keys: none, u1 right, and u2 wrong ahead of u1 right
DirectResults ==
    {[results |-> NoFunction, order |-> <<>>],
     [results |-> [u \in {"u1"} |-> [q \in {0} |-> TRUE]], order |-> <<"u1">>],
     [results |-> [u \in {"u1", "u2"} |-> [q \in {0} |-> u = "u1"]],
      order |-> <<"u2", "u1">>]}

\* setSessionResults(id, results): an unknown id returns without effect
CallSetSessionResults(id, results) ==
    /\ pc = "manager"
    /\ sessions' = IF id \in DOMAIN sessions
                   THEN [sessions EXCEPT ![id] =
                           setSessionResults(@, results.results, results.order, now)]
                   ELSE sessions
    /\ mgrCall' = [op |-> "setSessionResults", sessionId |-> id, userId |-> "", error |-> "none"]
    /\ UNCHANGED <<pc, argVars, mgrQuestions, sid, dispVars, runVars, limiterVars, clientVars>>

\* new MultiUserQuizManager(QuizPool), then any calls
InitCalls ==
    /\ pc = "manager"
    /\ InitRun
    /\ InitUnits
    /\ mode = "multi"
    /\ userIds = <<>>
    /\ rawPool = QuizPool
    /\ reqCount = 1
    /\ intervalSeconds = 45
    /\ mgrQuestions = validateAndCleanQuestions(rawPool)
    /\ sessions = NoFunction
    /\ sid = "none"
    /\ qi = 0
    /\ shuffled = NoShuffle
    /\ pollReq = NoPoll

NextCalls ==
    \/ \E id \in ManagerSessionIds : CallCreateSession(id)
    \/ \E id \in ManagerSessionIds \cup {UnknownSessionId}, u \in Users :
          CallAddParticipant(id, u)
    \/ \E id \in ManagerSessionIds \cup {UnknownSessionId}, r \in DirectResults :
          CallSetSessionResults(id, r)

SpecCalls == InitCalls /\ [][NextCalls]_vars

----------------------------------------------------------------------------
(* RateLimiter: concurrent callers of waitIfNeeded on one instance.
   Time is counted in ticks of 1/6 s. *)

minInterval == 2            \* 1000 / requestsPerSecond ms with requestsPerSecond = 3

IdleCaller == [pc |-> "idle", wakeAt |-> 0, returnedAt |-> 0]

\* the synchronous head of waitIfNeeded: read the clock, then either start
\* delay(minInterval - timeSinceLastRequest) or stamp lastRequestTime and return
EnterWait(c) ==
    /\ pc = "limiter"
    /\ callers[c].pc = "idle"
    /\ LET timeSinceLastRequest == clock - lastRequestTime
       IN  IF timeSinceLastRequest < minInterval
           THEN /\ callers' = [callers EXCEPT ![c] =
                     [pc |-> "delaying", wakeAt |-> clock + (minInterval - timeSinceLastRequest),
                      returnedAt |-> 0]]
                /\ UNCHANGED lastRequestTime
           ELSE /\ callers' = [callers EXCEPT ![c] =
                     [pc |-> "returned", wakeAt |-> 0, returnedAt |-> clock]]
                /\ lastRequestTime' = clock
    /\ UNCHANGED <<pc, argVars, mgrVars, dispVars, runVars, clock, clientVars, mgrCall>>

\* the delay of caller c is over: this.lastRequestTime = Date.now(), return
WakeUp(c) ==
    /\ pc = "limiter"
    /\ callers[c].pc = "delaying"
    /\ clock >= callers[c].wakeAt
    /\ callers' = [callers EXCEPT ![c] = [pc |-> "returned", wakeAt |-> 0, returnedAt |-> clock]]
    /\ lastRequestTime' = clock
    /\ UNCHANGED <<pc, argVars, mgrVars, dispVars, runVars, clock, clientVars, mgrCall>>

\* time passes; a delay that is due resolves before the clock moves on
Tick ==
    /\ pc = "limiter"
    /\ clock < MaxClock
    /\ \A c \in DOMAIN callers : callers[c].pc = "delaying" => clock < callers[c].wakeAt
    /\ clock' = clock + 1
    /\ UNCHANGED <<pc, argVars, mgrVars, dispVars, runVars, lastRequestTime, callers,
                   clientVars, mgrCall>>

\* new RateLimiter(): lastRequestTime = 0, long before the first call
InitLimiter ==
    /\ pc = "limiter"
    /\ InitRun
    /\ clock = minInterval
    /\ lastRequestTime = 0
    /\ callers = [c \in 1..MaxCallers |-> IdleCaller]
    /\ api = NoCall
    /\ events = <<>>
    /\ mgrCall = NoCall
    /\ mode = "multi"
    /\ userIds = <<>>
    /\ rawPool = <<>>
    /\ reqCount = 1
    /\ intervalSeconds = 45
    /\ mgrQuestions = <<>>
    /\ sessions = NoFunction
    /\ sid = "none"
    /\ qi = 0
    /\ shuffled = NoShuffle
    /\ pollReq = NoPoll

NextLimiter ==
    \/ \E c \in 1..MaxCallers : EnterWait(c)
    \/ \E c \in 1..MaxCallers : WakeUp(c)
    \/ Tick

SpecLimiter == InitLimiter /\ [][NextLimiter]_vars

----------------------------------------------------------------------------
(* TelegramAPI: one public operation at a time, request by request.
   events keeps the limiter waits, the HTTP requests and the backoff sleeps
   since (and including) the last request of the previous operation. *)

MessageTextLimit == 4096    \* sanitizeText: substring(0, 4096)
SavolPrefixLength == 10     \* "<b>Savol: " in front of the question
RetryAfterSeconds == 7      \* a retry_after the platform sends with a 429

NoText == [about |-> "none", text |-> <<>>]
NoError == [attempt |-> 0, kind |-> "none"]
GenericError == [attempt |-> 0, kind |-> "So'rov muvaffaqiyatsiz"]

\* what fetch + response.json() can come to: a 2xx answer, a 429 without or
\* with parameters.retry_after, another non-2xx status, or a thrown error
Responses ==
    {[kind |-> "ok", retry_after |-> 0], [kind |-> "429", retry_after |-> 0],
     [kind |-> "429", retry_after |-> RetryAfterSeconds],
     [kind |-> "http", retry_after |-> 0], [kind |-> "transport", retry_after |-> 0]}

WaitEvent == [kind |-> "wait", method |-> "", attempt |-> 0, carries |-> NoText, seconds |-> 0]
RequestEvent(method, attempt, carries) ==
    [kind |-> "request", method |-> method, attempt |-> attempt, carries |-> carries,
     seconds |-> 0]
SleepEvent(seconds) ==
    [kind |-> "sleep", method |-> "", attempt |-> 0, carries |-> NoText, seconds |-> seconds]

\* a loop in which a 429 does not use up an attempt
nextAttemptFree429(attempt, response) ==
    IF response.kind = "429" THEN attempt ELSE attempt + 1

\* for (...; attempt++): `continue` and the end of the catch block both get here
nextAttempt(attempt, response) == attempt + 1

\* the delay after a failed attempt, in seconds (0: none)
sleepAfter(attempt, response) ==
    IF response.kind = "429"
    THEN IF response.retry_after # 0 THEN response.retry_after ELSE backoffSeconds(attempt)
    ELSE IF response.kind \in {"http", "transport"} /\ attempt < MaxRetries
    THEN backoffSeconds(attempt)
    ELSE 0

\* lastError after a failed attempt: only the catch block assigns it
errorAfter(lastError, attempt, response) ==
    IF response.kind \in {"http", "transport"}
    THEN [attempt |-> attempt, kind |-> response.kind]
    ELSE lastError

\* the question as far as it lies within the text sanitizeText lets through
questionMessage(question) ==
    [about |-> "question",
     text |-> Substring0(question, MessageTextLimit - SavolPrefixLength)]

optionsMessage(sanitizedOptions) == [about |-> "options", text |-> sanitizedOptions]

\* entering makeRequestWithRetry(method, payload)
StartRequest(a, method, carries, ret) ==
    [a EXCEPT !.pc = "request", !.method = method, !.carries = carries, !.ret = ret,
              !.attempt = 1, !.lastError = NoError, !.responses = <<>>]

RECURSIVE lastRequestOnly(_)
lastRequestOnly(evs) ==
    IF evs = <<>> THEN <<>>
    ELSE IF evs[Len(evs)].kind = "request" THEN <<evs[Len(evs)]>>
    ELSE lastRequestOnly(SubSeq(evs, 1, Len(evs) - 1))

PollQuestionInputs == {S_a, S_long_q, <<Run("a", MessageTextLimit + 1)>>}
PollOptionInputs ==
    {<<S_a>>, <<S_pad_a, S_b>>, <<S_long_ab, S_b>>,
     [k \in 1..(MaxPollOptions + 1) |-> IF k = 1 THEN S_b ELSE S_a]}
CorrectIdInputs == {0, 2}
DefaultOpenPeriod == 20     \* openPeriod: number = 20

clientUnchanged == <<pc, argVars, mgrVars, dispVars, runVars, limiterVars, mgrCall>>

\* a caller starts sendMessage, sendPoll, getUpdates or getUserInfo
BeginCall(op, question, options, correctOptionId) ==
    /\ pc = "client"
    /\ api.pc \in {"returned", "thrown"}
    /\ events' = lastRequestOnly(events)
    /\ api' = [op |-> op, pc |-> "wait", question |-> question, options |-> options,
               correctOptionId |-> correctOptionId, method |-> "", carries |-> NoText,
               ret |-> "", attempt |-> 0, lastError |-> NoError, responses |-> <<>>,
               thrown |-> NoError, base |-> Len(events')]
    /\ UNCHANGED clientUnchanged

\* await this.rateLimiter.waitIfNeeded() at the head of the operation
LimiterWait ==
    /\ pc = "client"
    /\ api.op # "none"
    /\ api.pc = "wait"
    /\ events' = Append(events, WaitEvent)
    /\ api' = CASE api.op = "sendMessage" ->
                     StartRequest(api, "sendMessage", [about |-> "text", text |-> S_a], "returned")
                [] api.op = "getUpdates" -> StartRequest(api, "getUpdates", NoText, "returned")
                [] api.op = "sendPoll" -> [api EXCEPT !.pc = "longQuestion"]
                [] api.op = "getUserInfo" -> [api EXCEPT !.pc = "getChat"]
    /\ UNCHANGED clientUnchanged

\* sendPoll: if (question.length > 300) await this.sendMessage(...)
PollQuestionMessage ==
    /\ pc = "client"
    /\ api.op = "sendPoll"
    /\ api.pc = "longQuestion"
    /\ IF StrLen(api.question) > PollQuestionLimit
       THEN /\ events' = Append(events, WaitEvent)
            /\ api' = StartRequest(api, "sendMessage", questionMessage(api.question), "validate")
       ELSE /\ api' = [api EXCEPT !.pc = "validate"]
            /\ UNCHANGED events
    /\ UNCHANGED clientUnchanged

\* sendPoll: the two checks on the sanitised options
PollValidate ==
    /\ pc = "client"
    /\ api.op = "sendPoll"
    /\ api.pc = "validate"
    /\ LET req == sendPollRequest(api.question, api.options, api.correctOptionId,
                                  DefaultOpenPeriod)
       IN  api' = IF req.error # "none"
                  THEN [api EXCEPT !.pc = "thrown",
                                   !.thrown = [attempt |-> 0, kind |-> req.error]]
                  ELSE [api EXCEPT !.pc = "longOptions"]
    /\ UNCHANGED <<events, clientUnchanged>>

\* sendPoll: if (sanitizedOptions.some(opt => opt.length > 100)) the options
\* message, then the poll request
PollRequest ==
    /\ pc = "client"
    /\ api.op = "sendPoll"
    /\ api.pc \in {"longOptions", "payload"}
    /\ LET sanitizedOptions == sanitizePollOptions(api.options, PollOptionLimit)
       IN  IF /\ api.pc = "longOptions"
              /\ \E k \in 1..Len(sanitizedOptions) : StrLen(sanitizedOptions[k]) > PollOptionLimit
           THEN /\ events' = Append(events, WaitEvent)
                /\ api' = StartRequest(api, "sendMessage", optionsMessage(sanitizedOptions),
                                       "payload")
           ELSE /\ api' = StartRequest(api, "sendPoll", NoText, "returned")
                /\ UNCHANGED events
    /\ UNCHANGED clientUnchanged

\* one iteration of the loop of makeRequestWithRetry
Attempt ==
    /\ pc = "client"
    /\ api.op # "none"
    /\ api.pc = "request"
    /\ api.attempt <= MaxRetries
    /\ \E response \in Responses :
         LET request == RequestEvent(api.method, api.attempt, api.carries)
             seconds == sleepAfter(api.attempt, response)
         IN  /\ events' = IF seconds > 0 THEN events \o <<request, SleepEvent(seconds)>>
                          ELSE Append(events, request)
             /\ api' = IF response.kind = "ok"
                       THEN [api EXCEPT !.pc = api.ret,
                                        !.responses = Append(@, response.kind)]
                       ELSE [api EXCEPT !.attempt = nextAttempt(@, response),
                                        !.lastError = errorAfter(@, api.attempt, response),
                                        !.responses = Append(@, response.kind)]
    /\ UNCHANGED clientUnchanged

\* throw lastError || new Error('So'rov muvaffaqiyatsiz')
Exhausted ==
    /\ pc = "client"
    /\ api.op # "none"
    /\ api.pc = "request"
    /\ api.attempt > MaxRetries
    /\ api' = [api EXCEPT !.pc = "thrown",
                          !.thrown = IF api.lastError = NoError THEN GenericError
                                     ELSE api.lastError]
    /\ UNCHANGED <<events, clientUnchanged>>

\* getUserInfo: one fetch of getChat inside try/catch
GetChat ==
    /\ pc = "client"
    /\ api.op = "getUserInfo"
    /\ api.pc = "getChat"
    /\ events' = Append(events, RequestEvent("getChat", 1, NoText))
    /\ \E outcome \in {"ok", "notOk", "transport"} :
         api' = IF outcome = "ok" THEN [api EXCEPT !.pc = "returned"]
                ELSE [api EXCEPT !.pc = "thrown",
                                 !.thrown = [attempt |-> 1, kind |-> outcome]]
    /\ UNCHANGED clientUnchanged

\* new TelegramAPI(token)
InitClient ==
    /\ pc = "client"
    /\ InitRun
    /\ InitUnits
    /\ mode = "multi"
    /\ userIds = <<>>
    /\ rawPool = <<>>
    /\ reqCount = 1
    /\ intervalSeconds = 45
    /\ mgrQuestions = <<>>
    /\ sessions = NoFunction
    /\ sid = "none"
    /\ qi = 0
    /\ shuffled = NoShuffle
    /\ pollReq = NoPoll

NextClient ==
    \/ \E op \in {"sendMessage", "getUpdates", "getUserInfo"} : BeginCall(op, <<>>, <<>>, 0)
    \/ \E q \in PollQuestionInputs, o \in PollOptionInputs, c \in CorrectIdInputs :
          BeginCall("sendPoll", q, o, c)
    \/ LimiterWait
    \/ PollQuestionMessage
    \/ PollValidate
    \/ PollRequest
    \/ Attempt
    \/ Exhausted
    \/ GetChat

SpecClient == InitClient /\ [][NextClient]_vars

----------------------------------------------------------------------------
(* Properties of the manager-level steps *)

RowNumbers(qs) == {qs[k].rowNumber : k \in 1..Len(qs)}

C8_WitnessEmpty == pc = "emptyPool" /\ Len(rawPool) >= 2

\* the correct answer text as the platform shows it
ShownText(text) == Trim(Substring0(Trim(text), PollOptionLimit))

\* C9: every poll request has 2..10 options and options[correct_option_id]
\* is the question's correct answer text, trimmed and truncated as the
\* options are.
C9_PollPointsAtCorrect ==
    pc = "polled" =>
      /\ Len(pollReq.options) >= 2
      /\ Len(pollReq.options) <= 10
      /\ pollReq.correct_option_id >= 0
      /\ pollReq.correct_option_id < Len(pollReq.options)
      /\ pollReq.options[pollReq.correct_option_id + 1] = ShownText(rawPool[1].correctAnswer)

C9_Witness ==
    /\ pc = "polled"
    /\ pollReq.correct_option_id > 0
    /\ rawPool[1].correctAnswer = S_long_ab
    /\ \E k, m \in 1..Len(pollReq.options) : k # m /\ pollReq.options[k] = pollReq.options[m]

\* C10: a question accepted by isValidQuestion and cleaned by cleanQuestion
\* never makes shuffleWithCorrectIndex throw.
C10_NoIntegrityError == pc # "integrityError"

C10_Witness ==
    /\ pc = "shuffled"
    /\ rawPool[1].correctAnswer = S_pad_a
    /\ Includes(rawPool[1].options, S_a)


----------------------------------------------------------------------------
(* Properties of the orchestration and of the collector *)

\* the cycle of question index n has returned, all answered or timed out
cycleResolved(n) ==
    /\ Len(cycles) > n
    /\ cycles[n + 1].q = n
    /\ cycles[n + 1].answered \/ cycles[n + 1].elapsed >= safeInterval

\* C1: a poll for a question exists only when the collection cycle of every
\* earlier question of the session has returned, with all participants
\* answered or with the timeout elapsed.
C1_SequentialDispatch ==
    \A p \in 1..Len(polls) : \A n \in 0..(polls[p].q - 1) : cycleResolved(n)

\* the second question is dispatched after a first cycle that timed out (multi
\* user), and after a first cycle that everybody answered
C1_Witness ==
    /\ mode = "multi"
    /\ Len(validUserIds) = 2
    /\ \E p \in 1..Len(polls) : polls[p].q = 1
    /\ ~cycles[1].answered

C1_WitnessAnswered ==
    /\ mode = "single"
    /\ \E p \in 1..Len(polls) : polls[p].q = 1
    /\ cycles[1].answered

\* the users the last returned cycle waited for
awaitedInLastCycle ==
    {u \in DOMAIN userStates : userStates[u].questionIndex = cycles[Len(cycles)].q}

\* C2: once the cycle of question q has returned, every participant it waited
\* for has a record for q in the collector's results map (false when the
\* participant did not answer in time).
C2_UnansweredResolvedFalse ==
    (pc \in {"loop", "done"} /\ cycles # <<>>) =>
        \A u \in awaitedInLastCycle : cycles[Len(cycles)].q \in DOMAIN collResults[u]

\* C3: a record (participant, questionIndex) of the collector, once written,
\* is never changed or removed by a later delivery.
C3_FirstDeliveryOnly ==
    [][\A u \in DOMAIN collResults : \A q \in DOMAIN collResults[u] :
          /\ u \in DOMAIN collResults'
          /\ q \in DOMAIN collResults'[u]
          /\ collResults'[u][q] = collResults[u][q]]_vars

\* an answer delivered twice, followed by a delivered answer to the same poll
\* with another option, and the record still that of the first answer
C3_Witness ==
    \E k1 \in 1..Len(updates), k2 \in 1..Len(updates) :
        /\ k1 < k2
        /\ updates[k1].poll_id = updates[k2].poll_id
        /\ updates[k1].option_ids # updates[k2].option_ids
        /\ delivered[k1] >= 2
        /\ delivered[k2] >= 1
        /\ LET p == polls[updates[k1].poll_id]
           IN  /\ p.q \in DOMAIN collResults[p.user]
               /\ collResults[p.user][p.q] = (p.correctId \in updates[k1].option_ids)
               /\ collResults[p.user][p.q] # (p.correctId \in updates[k2].option_ids)

\* C4: every collection cycle returns no later than the timeout after it
\* was started.
C4_CycleWithinTimeout ==
    \A k \in 1..Len(cycles) : cycles[k].elapsed <= safeInterval

storedResults == {session.results[u] : u \in DOMAIN session.results}

\* C5: among the stored results more correct answers rank strictly higher
\* whatever the completion times, and with equal correct answers the lower
\* completion time ranks strictly higher.
C5_RankingOrder ==
    sid \in DOMAIN sessions =>
        \A a \in storedResults, b \in storedResults :
            /\ a.correct > b.correct => a.rank < b.rank
            /\ (a.correct = b.correct /\ a.completionTime < b.completionTime)
                   => a.rank < b.rank

\* the participant with more correct answers took longer and still ranks first
C5_Witness ==
    /\ sid \in DOMAIN sessions
    /\ \E a \in storedResults, b \in storedResults :
          /\ a.correct > b.correct
          /\ a.completionTime > b.completionTime
          /\ a.rank = 1
          /\ b.rank = 2

\* two participants with equal correct answers, ordered by completion time
C5_WitnessTie ==
    /\ sid \in DOMAIN sessions
    /\ \E a \in storedResults, b \in storedResults :
          /\ a.correct = b.correct
          /\ a.correct > 0
          /\ a.completionTime < b.completionTime
          /\ a.rank = 1
          /\ b.rank = 2

\* C6: every result stored in a session has correct + incorrect = total =
\* the session's number of questions and 0 <= correct <= total.
C6_ResultTotals ==
    \A s \in DOMAIN sessions : \A u \in DOMAIN sessions[s].results :
        LET r == sessions[s].results[u]
        IN  /\ r.correct + r.incorrect = r.total
            /\ r.total = Len(sessions[s].questions)
            /\ 0 <= r.correct
            /\ r.correct <= r.total

\* the intermediate result, after the first of two questions, of a
\* participant who has no record at all, beside one who answered
C6_Witness ==
    /\ sid \in DOMAIN sessions
    /\ Len(session.questions) = 2
    /\ Len(cycles) = 1
    /\ \E u \in DOMAIN session.results, v \in DOMAIN session.results :
          /\ DOMAIN collResults[u] = {}
          /\ session.results[u].incorrect = 2
          /\ session.results[v].correct = 1

\* the polls the participant answered with the correct option before the
\* cycle's timeout
answeredCorrectlyInTime ==
    {p \in 1..Len(polls) :
        \E k \in answersTo(p) : updates[k].inTime /\ polls[p].correctId \in updates[k].option_ids}

\* C7: a single-user quiz that ran to its end, with at most one answer per
\* poll and k polls answered correctly within the timeout, leaves the result
\* correct = k, incorrect = n - k, total = n, percentage = 100 * k / n, rank 1.
C7_SoleParticipantResult ==
    (/\ mode = "single"
     /\ pc = "done"
     /\ \A p \in 1..Len(polls) : Cardinality(answersTo(p)) <= 1) =>
        LET n == Len(session.questions)
            k == Cardinality(answeredCorrectlyInTime)
            r == session.results[userIds[1]]
        IN  /\ r.correct = k
            /\ r.incorrect = n - k
            /\ r.total = n
            /\ r.percentage = [num |-> 100 * k, den |-> n]
            /\ r.rank = 1

pollsSentTo(u, q) == {p \in 1..Len(polls) : polls[p].user = u /\ polls[p].q = q}

\* C20: in a multi-user run no step of a question's fan-out ends the run or
\* changes the participants or the question in hand: the fan-out goes on and
\* is joined, and a run that finishes has run the cycle of every question.
C20_FanOutFailureTolerated ==
    /\ [][(mode = "multi" /\ pc = "shuffled") =>
             /\ pc' \in {"shuffled", "waiting"}
             /\ qi' = qi
             /\ validUserIds' = validUserIds]_vars
    /\ []((mode = "multi" /\ pc = "done") => Len(cycles) = Len(session.questions))

\* the first question failed for u1 only; u2 got both questions, u1 the second
C20_Witness ==
    /\ mode = "multi"
    /\ pc = "done"
    /\ Len(session.questions) = 2
    /\ validUserIds = <<"u1", "u2">>
    /\ pollsSentTo("u1", 0) = {}
    /\ pollsSentTo("u2", 0) # {}
    /\ pollsSentTo("u1", 1) # {}
    /\ pollsSentTo("u2", 1) # {}

\* C13: the open_period of every poll sent equals the timeout its question's
\* collection cycle is run with.
C13_TimeoutEqualsOpenPeriod ==
    \A p \in 1..Len(polls) : polls[p].openPeriod = safeInterval

\* C19: a call of addParticipant with an unknown session id throws the
\* not-found error and one on an inactive session the session-closed error,
\* both leaving all sessions as they were; any other call throws nothing and
\* puts the participant under its user id into that session, changing nothing
\* else.
C19_AddParticipant ==
    [][(mgrCall'.op = "addParticipant" /\ <<mgrCall, sessions>>' # <<mgrCall, sessions>>) =>
          LET id == mgrCall'.sessionId
              u == mgrCall'.userId
          IN  IF id \notin DOMAIN sessions
              THEN mgrCall'.error = "Sessiya topilmadi" /\ sessions' = sessions
              ELSE IF ~sessions[id].isActive
              THEN mgrCall'.error = "Sessiya allaqachon tugagan" /\ sessions' = sessions
              ELSE /\ mgrCall'.error = "none"
                   /\ DOMAIN sessions' = DOMAIN sessions
                   /\ \A x \in DOMAIN sessions \ {id} : sessions'[x] = sessions[x]
                   /\ DOMAIN sessions'[id].participants =
                          DOMAIN sessions[id].participants \cup {u}
                   /\ sessions'[id].participants[u].userId = u
                   /\ \A v \in DOMAIN sessions[id].participants \ {u} :
                          sessions'[id].participants[v] = sessions[id].participants[v]
                   /\ [sessions'[id] EXCEPT !.participants = NoFunction] =
                          [sessions[id] EXCEPT !.participants = NoFunction]]_vars

\* a join refused by a closed session that holds results, beside an open one
C19_Witness ==
    /\ mgrCall.op = "addParticipant"
    /\ mgrCall.error = "Sessiya allaqachon tugagan"
    /\ mgrCall.userId \notin DOMAIN sessions[mgrCall.sessionId].participants
    /\ DOMAIN sessions[mgrCall.sessionId].results # {}
    /\ \E x \in DOMAIN sessions : sessions[x].isActive

C19_WitnessUnknown ==
    /\ mgrCall.op = "addParticipant"
    /\ mgrCall.error = "Sessiya topilmadi"
    /\ DOMAIN sessions = ManagerSessionIds

C19_WitnessJoined ==
    /\ mgrCall.op = "addParticipant"
    /\ mgrCall.error = "none"
    /\ \E x \in DOMAIN sessions : x # mgrCall.sessionId /\ DOMAIN sessions[x].participants = {}

returnedCallers == {c \in DOMAIN callers : callers[c].pc = "returned"}

\* C17: the return times of any two waitIfNeeded calls on one RateLimiter
\* are at least minInterval apart.
C17_CallersSerialized ==
    \A c \in returnedCallers, d \in returnedCallers :
        c # d => \/ callers[c].returnedAt - callers[d].returnedAt >= minInterval
                 \/ callers[d].returnedAt - callers[c].returnedAt >= minInterval

----------------------------------------------------------------------------
(* Properties of the TelegramAPI operations *)

\* positions in events of the requests of the operation in progress
callRequests ==
    IF api.op = "none" THEN {}
    ELSE {i \in (api.base + 1)..Len(events) : events[i].kind = "request"}

\* the requests of the makeRequestWithRetry call entered last
loopRequests == {i \in callRequests : events[i].method = api.method}

validationErrors == {"optionCount", "correctIndex"}

\* the operation ended by the throw behind the loop of makeRequestWithRetry
thrownByRetryLoop ==
    api.pc = "thrown" /\ api.method # "" /\ api.thrown.kind \notin validationErrors

\* C11: when sendPoll throws for the number of sanitised options or for the
\* correct index, the call has issued no request.
C11_ValidationBeforeNetwork ==
    (api.pc = "thrown" /\ api.thrown.kind \in validationErrors) => callRequests = {}

\* C12: a poll request for a question longer than 300 comes after a message
\* request of the same call carrying the whole question, and one for an
\* option longer than 100 after a message request carrying the whole options.
C12_SupplementaryMessage ==
    \A i \in callRequests : events[i].method = "sendPoll" =>
        /\ StrLen(api.question) > PollQuestionLimit =>
              \E j \in callRequests :
                  /\ j < i
                  /\ events[j].method = "sendMessage"
                  /\ events[j].carries = [about |-> "question", text |-> api.question]
        /\ (\E k \in 1..Len(api.options) : StrLen(api.options[k]) > PollOptionLimit) =>
              \E j \in callRequests :
                  /\ j < i
                  /\ events[j].method = "sendMessage"
                  /\ events[j].carries = [about |-> "options", text |-> api.options]

\* C14: one call of makeRequestWithRetry issues at most 3 requests, one per
\* attempt whatever the response was; a 2xx response is the last one and ends
\* the loop; the call throws only after 3 requests none of which got a 2xx.
C14_RequestBudget ==
    api.op # "none" =>
        /\ Len(api.responses) <= MaxRetries
        /\ api.method # "" => Cardinality(loopRequests) = Len(api.responses)
        /\ api.pc = "request" => api.attempt = Len(api.responses) + 1
        /\ \A i \in 1..Len(api.responses) :
              api.responses[i] = "ok" => i = Len(api.responses) /\ api.pc # "request"
        /\ thrownByRetryLoop =>
              /\ Len(api.responses) = MaxRetries
              /\ \A i \in 1..MaxRetries : api.responses[i] # "ok"

\* three failures in a mix of 429 and other errors, then the throw
C14_Witness ==
    /\ thrownByRetryLoop
    /\ api.responses = <<"429", "http", "429">>
    /\ Cardinality(loopRequests) = MaxRetries

\* a 2xx on the third attempt, after a 429 and a transport error
C14_WitnessReturned ==
    /\ api.op = "getUpdates"
    /\ api.pc = "returned"
    /\ api.responses = <<"429", "transport", "ok">>

\* C15: the error thrown after the last attempt is the failure of that
\* last attempt.
C15_ThrowsLastFailure ==
    thrownByRetryLoop =>
        api.thrown = [attempt |-> MaxRetries, kind |-> api.responses[MaxRetries]]

\* C16: an operation fails for a failed request only after 3 attempts of
\* that request.
C16_AllOperationsRetry ==
    (api.pc = "thrown" /\ api.thrown.kind \notin validationErrors) =>
        \E m \in {"sendMessage", "sendPoll", "getUpdates", "getChat"} :
            Cardinality({i \in callRequests : events[i].method = m}) = MaxRetries

\* C18: between a first-attempt request and any request before it lies a
\* limiter wait.
C18_WaitBeforeFirstAttempt ==
    \A i \in 1..Len(events), j \in 1..Len(events) :
        (/\ j < i
         /\ events[i].kind = "request"
         /\ events[i].attempt = 1
         /\ events[j].kind = "request") =>
            \E w \in (j + 1)..(i - 1) : events[w].kind = "wait"

----------------------------------------------------------------------------
(* Properties of a session's participants, life cycle and expectations *)

\* C21: in a multi-user run a participant to whom the poll of a question whose
\* cycle has returned was not dispatched gets no poll for any later question.
C21_FailedParticipantRemoved ==
    mode = "multi" =>
        \A k \in 1..Len(validUserIds) : \A n \in 0..(Len(cycles) - 1) :
            pollsSentTo(validUserIds[k], n) = {} =>
                \A m \in (n + 1)..Len(session.questions) :
                    pollsSentTo(validUserIds[k], m) = {}

\* C26: no step changes the results or the end timestamp of a session that
\* is inactive.
C26_InactiveSessionImmutable ==
    [][\A s \in DOMAIN sessions :
          ~sessions[s].isActive =>
              /\ sessions'[s].results = sessions[s].results
              /\ sessions'[s].endTime = sessions[s].endTime]_vars

\* C27: a session is inactive only when the collection cycle of every one of
\* its questions has returned.
C27_InactiveOnlyAfterLastCycle ==
    \A s \in DOMAIN sessions :
        ~sessions[s].isActive => Len(cycles) = Len(sessions[s].questions)

\* C28: when the collection cycle of a question starts, every participant it
\* waits for has an unanswered expectation for that question, with the id and
\* the correct option of the poll just sent to that participant.
C28_ExpectationAtCycleStart ==
    [][(pc = "shuffled" /\ pc' = "waiting") =>
          \A k \in 1..Len(validUserIds) :
              LET u == validUserIds[k]
              IN  /\ u \in DOMAIN userStates'
                  /\ userStates'[u].questionIndex = qi
                  /\ ~userStates'[u].isAnswered
                  /\ userStates'[u].expectedPollId \in 1..Len(polls')
                  /\ polls'[userStates'[u].expectedPollId].user = u
                  /\ polls'[userStates'[u].expectedPollId].q = qi
                  /\ polls'[userStates'[u].expectedPollId].correctId
                         = userStates'[u].correctOptionId]_vars

\* C29: no answer event is returned by getUpdates more than once.
C29_NoRedelivery ==
    \A k \in 1..Len(delivered) : delivered[k] <= 1

\* C30: a record for a question whose cycle has returned is neither created
\* nor changed by a later step.
C30_NoRecordAfterTimeout ==
    [][\A u \in DOMAIN collResults' : \A n \in DOMAIN collResults'[u] :
          n < Len(cycles) =>
              /\ u \in DOMAIN collResults
              /\ n \in DOMAIN collResults[u]
              /\ collResults[u][n] = collResults'[u][n]]_vars

----------------------------------------------------------------------------
(* Properties of the orchestration's error handling *)

\* C22: in a multi-user run no step of the registration loop ends the run: a
\* participant whose registration fails is left out and the loop goes on.
C22_RegistrationFailureExcludesOnly ==
    [][(mode = "multi" /\ pc = "created" /\ regIdx < Len(userIds)) => pc' = "created"]_vars

\* C23: a multi-user run whose registration loop has ended without any
\* registered participant is aborted with an error, and no poll has been sent.
C23_NoParticipantAborts ==
    (mode = "multi" /\ regIdx = Len(userIds) /\ validUserIds = <<>> /\ pc # "created") =>
        /\ pc \in {"failed", "thrown"}
        /\ failure.caught # "none"
        /\ pc = "thrown" => failure.thrown.message # "none"
        /\ polls = <<>>

\* both lookups failed, both warnings were sent, and the run was aborted
C23_Witness ==
    /\ mode = "multi"
    /\ pc = "thrown"
    /\ regIdx = Len(userIds)
    /\ validUserIds = <<>>
    /\ failure.caught = "Hech bir foydalanuvchi topilmadi"
    /\ polls = <<>>

\* C24: the error sendQuizToTelegram throws to its caller carries the message
\* of the error its catch block caught.
C24_SingleRethrowsOriginal ==
    (mode = "single" /\ pc = "thrown") => failure.thrown.message = failure.caught

\* C25: the error sendMultiUserQuizToTelegram throws to its caller is the
\* prefixed message of the error its catch block caught, whoever the failure
\* notification reached.
C25_MultiRethrowsOriginal ==
    (mode = "multi" /\ pc = "thrown") =>
        failure.thrown = [prefix |-> "Multi-user quiz yuborishda xato: ",
                          message |-> failure.caught]

\* the notification reached nobody
C25_Witness ==
    /\ mode = "multi"
    /\ pc = "thrown"
    /\ failure.reached = {}
    /\ failure.thrown.message = "Hech bir foydalanuvchi topilmadi"

\* the notification reached one of the two recipients, after a warning
\* message that could not be sent
C25_WitnessSome ==
    /\ mode = "multi"
    /\ pc = "thrown"
    /\ failure.reached = {"u2"}
    /\ validUserIds = <<"u1">>
    /\ failure.thrown.message = RequestError

----------------------------------------------------------------------------
(* Properties of the collection cycle *)

\* the answer events the platform can hand to the collector next: from the
\* quiz's users or a stranger, for any poll sent so far or a poll of another chat
AnswerEvents ==
    [update_id : {Len(updates) + 1}, user : {"u1", "u2", "u0"},
     poll_id : 1..(Len(polls) + 1), option_ids : {{0}, {1}}]

\* the user has no expectation, is expected to answer another poll, or has
\* answered already
isIgnored(e) ==
    \/ e.user \notin DOMAIN userStates
    \/ userStates[e.user].expectedPollId # e.poll_id
    \/ userStates[e.user].isAnswered

\* C31: an answer event of a user without expectation, for another poll than
\* the expected one, or for an answered expectation changes neither results
\* nor expectations; only the offset moves behind it.
C31_IgnoredEventFrame ==
    \A e \in AnswerEvents :
        isIgnored(e) =>
            processUpdate(collector, e) = [collector EXCEPT !.offset = e.update_id + 1]

\* an answer was returned again in a later cycle, when its user was expected
\* to answer another poll, and was passed over: the offset is behind it
C31_Witness ==
    /\ pc = "sleepAfterBatch"
    /\ \E k \in 1..Len(updates) :
          /\ delivered[k] >= 2
          /\ userStates[updates[k].user].expectedPollId # updates[k].poll_id
          /\ ~userStates[updates[k].user].isAnswered
          /\ offset > k

\* events of all three kinds are at hand
C31_WitnessKinds ==
    /\ pc = "waiting"
    /\ \E e \in AnswerEvents : e.user \notin DOMAIN userStates
    /\ \E e \in AnswerEvents :
          e.user \in DOMAIN userStates /\ userStates[e.user].expectedPollId # e.poll_id
    /\ \E e \in AnswerEvents :
          /\ e.user \in DOMAIN userStates
          /\ userStates[e.user].expectedPollId = e.poll_id
          /\ userStates[e.user].isAnswered

\* C32: a step of the collection cycle leads to nothing but the cycle's own
\* positions or its return, and the steps of a failed getUpdates call and of
\* the sleep behind it leave results and expectations as they were; a cycle
\* returns only with all awaited users answered or the timeout elapsed.
C32_GetUpdatesFailureContained ==
    /\ [][/\ pc = "waiting" =>
               pc' \in {"waiting", "sleepAfterBatch", "sleepAfterError", "loop"}
          /\ (pc = "sleepAfterError" \/ pc' = "sleepAfterError") =>
               /\ pc' \in {"sleepAfterError", "waiting"}
               /\ collResults' = collResults
               /\ userStates' = userStates
          /\ (pc = "waiting" /\ pc' = "loop") => ~loopContinues]_vars
    /\ [](\A k \in 1..Len(cycles) :
             cycles[k].answered \/ cycles[k].elapsed >= safeInterval)

\* a getUpdates call failed after an answer had been recorded for the question
\* in hand; the record is there, and the deadline is still ahead when the
\* sleep behind the failure ends
C32_Witness ==
    /\ pc = "sleepAfterError"
    /\ \E u \in DOMAIN collResults : qi \in DOMAIN collResults[u]
    /\ now + 2 - startTime < safeInterval

\* C33: a run of sendMultiUserQuizToTelegram in which time advances and every
\* call returns or fails ends: it returns the rankings or throws.
C33_MultiTerminates == <>(pc \in {"done", "thrown"})

\* nobody answered and the only getUpdates call of the cycle failed; the run
\* returned the rankings
C33_Witness ==
    /\ mode = "multi"
    /\ pc = "done"
    /\ updates = <<>>
    /\ Len(cycles) = 1
    /\ ~cycles[1].answered
    /\ cycles[1].elapsed = backoffTotal(1) + 2

\* C35: a cycle that returned true, or before its timeout had elapsed, has a
\* record for its question for every participant it waited for.
C35_EarlyReturnMeansRecorded ==
    \A k \in 1..Len(cycles) :
        (cycles[k].answered \/ cycles[k].elapsed < safeInterval) =>
            \A j \in 1..Len(validUserIds) :
                /\ validUserIds[j] \in DOMAIN collResults
                /\ cycles[k].q \in DOMAIN collResults[validUserIds[j]]

\* C36: the rankings a multi-user run returns hold every registered
\* participant exactly once, with a rank.
C36_EveryParticipantRanked ==
    (mode = "multi" /\ pc = "done") =>
        LET rankings == getRankings(session)
        IN  \A j \in 1..Len(validUserIds) :
                Cardinality({i \in 1..Len(rankings) :
                                /\ rankings[i].userId = validUserIds[j]
                                /\ rankings[i].rank >= 1}) = 1

----------------------------------------------------------------------------
(* Properties of the retry loop's sleeps *)

\* C34: every backoff sleep of makeRequestWithRetry is followed by a request:
\* a sleep that is the last event so far is that of a loop with attempts left.
C34_SleepThenRequest ==
    \A i \in 1..Len(events) :
        events[i].kind = "sleep" =>
            IF i < Len(events) THEN events[i + 1].kind = "request"
            ELSE api.pc = "request" /\ api.attempt <= MaxRetries

----------------------------------------------------------------------------
(* Properties of the stored results *)

\* C37: in every session the ranks of the results are exactly 1..k for k
\* results, every result is that of a participant of the session, and
\* getRankings returns all results in ascending order of rank.
C37_RanksDense ==
    \A s \in DOMAIN sessions :
        LET res == sessions[s].results
            k == Cardinality(DOMAIN res)
            rankings == getRankings(sessions[s])
        IN  /\ {res[u].rank : u \in DOMAIN res} = 1..k
            /\ DOMAIN res \subseteq DOMAIN sessions[s].participants
            /\ Len(rankings) = k
            /\ \A i \in 1..k : rankings[i].rank = i /\ rankings[i] = res[rankings[i].userId]

\* two results stored in the order u2, u1 and ranked u1, u2
C37_Witness ==
    \E s \in DOMAIN sessions :
        /\ sessions[s].resultsOrder = <<"u2", "u1">>
        /\ sessions[s].results["u1"].rank = 1
        /\ sessions[s].results["u2"].rank = 2
        /\ getRankings(sessions[s])[1].userId = "u1"

\* results handed in for u1 and u2 on a session u1 never joined: only u2's
\* result is stored
C37_WitnessSkipped ==
    /\ mgrCall.op = "setSessionResults"
    /\ \E s \in DOMAIN sessions :
          /\ mgrCall.sessionId = s
          /\ DOMAIN sessions[s].participants = {"u2"}
          /\ DOMAIN sessions[s].results = {"u2"}
          /\ sessions[s].results["u2"].rank = 1

\* C38: the completion time of every stored result is the time from its
\* participant's join to the session's end timestamp, so that of two
\* participants the one who joined later has no larger completion time.
C38_CompletionTime ==
    sid \in DOMAIN sessions =>
        /\ \A u \in DOMAIN session.results :
              session.results[u].completionTime
                  = session.endTime - session.participants[u].startTime
        /\ \A u \in DOMAIN session.results, v \in DOMAIN session.results :
              session.participants[u].startTime <= session.participants[v].startTime
                  => session.results[u].completionTime >= session.results[v].completionTime

\* u2 joined after u1 and answered the first question; u1 answered none: both
\* completion times count to the end of the last cycle
C38_Witness ==
    /\ mode = "multi"
    /\ pc = "done"
    /\ Len(cycles) = 2
    /\ DOMAIN session.results = {"u1", "u2"}
    /\ DOMAIN collResults["u1"] = {}
    /\ DOMAIN collResults["u2"] = {0}
    /\ session.participants["u1"].startTime < session.participants["u2"].startTime
    /\ session.results["u1"].completionTime = session.results["u2"].completionTime + 1

----------------------------------------------------------------------------
(* The two engines run for one participant *)

\* C39: a run for the one participant u1 ends alike under both engines: it
\* returns a result only when the poll of every question was sent to u1, and
\* with a result for u1 (a failed dispatch or a missing result being a
\* terminal error).
C39_SoloEnginesAgree ==
    (Len(userIds) = 1 /\ pc = "done") =>
        /\ \A q \in 0..(Len(session.questions) - 1) : pollsSentTo(userIds[1], q) # {}
        /\ userIds[1] \in DOMAIN session.results

====
